---- MODULE Spec2Model ----
(***************************************************************************)
(* The codebase_stats tool (skills/codebase-stats/tools/codebase_stats.py):*)
(* main() validates its input, collect_stats() walks the tree under the    *)
(* scan root with os.walk, build_output() ranks the extension buckets.     *)
(*                                                                         *)
(* Strings are sequences of code points, so that str.startswith, str.lower,*)
(* Path.suffix and Python's string order are computed, not assumed.  A     *)
(* path is the sequence of its segments below the filesystem root.         *)
(***************************************************************************)
EXTENDS Integers, Sequences, FiniteSets, TLC

VARIABLES
    tree,            \* the filesystem below the workspace: file path -> attributes
    raw,             \* args.input
    scan_root,       \* main: the resolved scan root
    pc,              \* where main / collect_stats stands
    max_depth, top_extensions, max_files, include_hidden,   \* main's options
    stack,           \* os.walk: directories still to be yielded, next first
    root_path,       \* collect_stats: the directory being processed
    pending,         \* collect_stats: what is left of sorted(files)
    ext_stats,       \* collect_stats: the buckets, in dict insertion order
    scanned_files, scanned_dirs, skipped_files, truncated, total_lines,
    stats,           \* what collect_stats returned
    out,             \* the records printed on stdout
    exit_code,       \* the process's exit status, -1 while it runs
    visited,         \* history: every file the loop body took up, with its outcome
    first            \* what an earlier call on the same tree returned

vars == <<tree, raw, scan_root, pc, max_depth, top_extensions, max_files,
          include_hidden, stack, root_path, pending, ext_stats, scanned_files,
          scanned_dirs, skipped_files, truncated, total_lines, stats, out,
          exit_code, visited, first>>

-----------------------------------------------------------------------------
(* Bounds of the model *)

\* integer option values of the payload range over 0..MaxArg
MaxArg == 2
\* a regular text file has 1..MaxLines lines where the tree lets it vary
MaxLines == 2

-----------------------------------------------------------------------------
(* Program constants *)

DEFAULT_MAX_DEPTH == 6
DEFAULT_TOP_EXTENSIONS == 10
DEFAULT_MAX_FILES == 5000
MAX_TEXT_FILE_BYTES == 2 * 1024 * 1024
\* handle.read(2048) in is_binary_or_too_large
SAMPLE_BYTES == 2048

-----------------------------------------------------------------------------
(* Strings *)

\* "."
Dot == <<46>>
\* ".."
DotDot == <<46, 46>>
\* "no_ext"
NoExt == <<110, 111, 95, 101, 120, 116>>

\* Python's str < str: lexicographic by code point
RECURSIVE StrLess(_, _)
StrLess(a, b) ==
    IF a = <<>> THEN b # <<>>
    ELSE IF b = <<>> THEN FALSE
    ELSE IF Head(a) # Head(b) THEN Head(a) < Head(b)
    ELSE StrLess(Tail(a), Tail(b))

\* str.lower() on ASCII
Lower(s) == [i \in 1..Len(s) |-> IF s[i] >= 65 /\ s[i] <= 90 THEN s[i] + 32 ELSE s[i]]

\* str.strip(): leading and trailing blanks removed
RECURSIVE LStrip(_)
LStrip(s) == IF s # <<>> /\ Head(s) = 32 THEN LStrip(Tail(s)) ELSE s
RECURSIVE RStrip(_)
RStrip(s) == IF s # <<>> /\ s[Len(s)] = 32 THEN RStrip(SubSeq(s, 1, Len(s) - 1)) ELSE s
Strip(s) == RStrip(LStrip(s))

\* str.rfind("."): the 0-based index of the last dot, -1 without one
RECURSIVE RFindDot(_)
RFindDot(s) ==
    IF s = <<>> THEN -1
    ELSE IF s[Len(s)] = 46 THEN Len(s) - 1
    ELSE RFindDot(SubSeq(s, 1, Len(s) - 1))

\* PurePath.suffix of a file name
Suffix(name) ==
    LET i == RFindDot(name)
    IN IF 0 < i /\ i < Len(name) - 1 THEN SubSeq(name, i + 1, Len(name)) ELSE <<>>

\* str.lstrip(".")
RECURSIVE LStripDots(_)
LStripDots(s) == IF s # <<>> /\ Head(s) = 46 THEN LStripDots(Tail(s)) ELSE s

\* the orders in which a directory listing can return the entries S
Orderings(S) ==
    {s \in [1..Cardinality(S) -> S] : \A i, j \in 1..Cardinality(S) : i # j => s[i] # s[j]}

\* sorted(list of str): a stable insertion sort by StrLess
RECURSIVE InsertName(_, _)
InsertName(x, s) ==
    IF s = <<>> THEN <<x>>
    ELSE IF StrLess(x, Head(s)) THEN <<x>> \o s
    ELSE <<Head(s)>> \o InsertName(x, Tail(s))
RECURSIVE Sorted(_)
Sorted(s) == IF s = <<>> THEN <<>> ELSE InsertName(s[Len(s)], Sorted(SubSeq(s, 1, Len(s) - 1)))

-----------------------------------------------------------------------------
(* Paths *)

Last(p) == p[Len(p)]
Parent(p) == SubSeq(p, 1, Len(p) - 1)
IsPrefix(base, p) == Len(base) <= Len(p) /\ SubSeq(p, 1, Len(base)) = base

\* mutant of RelativeToRaises: the prefix is tested against the filesystem root
RelativeToRaisesAgainstRoot(p, base) == ~IsPrefix(<<>>, p)

\* PurePath.relative_to(base): the parts below base; raises ValueError otherwise
RelativeToRaises(p, base) == ~IsPrefix(base, p)
RelativeTo(p, base) == SubSeq(p, Len(base) + 1, Len(p))

\* Path.resolve() of base / segments: ".." steps up, never above the root
RECURSIVE Resolve(_, _)
Resolve(p, segs) ==
    IF segs = <<>> THEN p
    ELSE IF Head(segs) = DotDot
         THEN Resolve(IF p = <<>> THEN p ELSE Parent(p), Tail(segs))
         ELSE Resolve(Append(p, Head(segs)), Tail(segs))

-----------------------------------------------------------------------------
(* The filesystem *)

\* workspace_root(): the fixed base directory, /ws
BaseRoot == <<<<119, 115>>>>

\* directory names "a", "b", ".h" and, outside the workspace, "tmp"
DirA == <<97>>
DirB == <<98>>
DirH == <<46, 104>>
DirTmp == <<116, 109, 112>>
\* a name nothing in the filesystem has: "nope"
NameNope == <<110, 111, 112, 101>>

\* file names "a.y", "b.X", ".f", "c.x", "d", "e.y", "f.y", "g.x"
FileAY == <<97, 46, 121>>
FileBX == <<98, 46, 88>>
FileDotF == <<46, 102>>
FileCX == <<99, 46, 120>>
FileD == <<100>>
FileEY == <<101, 46, 121>>
FileFY == <<102, 46, 121>>
FileGX == <<103, 46, 120>>

\* the directories of the workspace: /ws, a, a/a, a/a/a, b, .h
WorkspaceDirs ==
    {BaseRoot, BaseRoot \o <<DirA>>, BaseRoot \o <<DirA, DirA>>,
     BaseRoot \o <<DirA, DirA, DirA>>, BaseRoot \o <<DirB>>, BaseRoot \o <<DirH>>}

\* every directory there is: /, /tmp and the workspace's
WorldDirs == {<<>>, <<DirTmp>>} \cup WorkspaceDirs

SlotAY == BaseRoot \o <<FileAY>>
SlotBX == BaseRoot \o <<FileBX>>
SlotDotF == BaseRoot \o <<FileDotF>>
SlotCX == BaseRoot \o <<DirA, FileCX>>
SlotD == BaseRoot \o <<DirA, DirA, FileD>>
SlotEY == BaseRoot \o <<DirA, DirA, DirA, FileEY>>
SlotFY == BaseRoot \o <<DirB, FileFY>>
SlotGX == BaseRoot \o <<DirH, FileGX>>

\* the places where the workspace may hold a non-directory entry
FileSlots == {SlotAY, SlotBX, SlotDotF, SlotCX, SlotD, SlotEY, SlotFY, SlotGX}

\* What the code can observe of a directory entry that is not a directory:
\*   type      "reg", "symlink" (to a small valid text file), "fifo", "absent"
\*   stat_ok   path.stat() in is_binary_or_too_large succeeds
\*   size      st_size
\*   open_ok   path.open("rb") succeeds
\*   nul_at    0-based offset of the first NUL byte, -1 without one
\*   read_ok   opening and reading the file as text in line_count succeeds
\*   lines     the number of lines text iteration yields
Reg(n) ==
    [type |-> "reg", stat_ok |-> TRUE, size |-> 10, open_ok |-> TRUE,
     nul_at |-> -1, read_ok |-> TRUE, lines |-> n]
Absent == [Reg(0) EXCEPT !.type = "absent"]
Symlink == [Reg(1) EXCEPT !.type = "symlink"]
Fifo == [Reg(0) EXCEPT !.type = "fifo"]
Big == [Reg(1) EXCEPT !.size = MAX_TEXT_FILE_BYTES + 1]
AtLimit == [Reg(1) EXCEPT !.size = MAX_TEXT_FILE_BYTES]
Nul == [Reg(1) EXCEPT !.nul_at = SAMPLE_BYTES - 1]
NulLate == [Reg(1) EXCEPT !.nul_at = SAMPLE_BYTES]
StatFail == [Reg(1) EXCEPT !.stat_ok = FALSE]
OpenFail == [Reg(1) EXCEPT !.open_ok = FALSE]
ReadFail == [Reg(1) EXCEPT !.read_ok = FALSE]

\* the trees a run may find below the workspace
Trees ==
    {(SlotAY :> ay) @@ (SlotBX :> bx) @@ (SlotDotF :> Fifo) @@ (SlotCX :> cx) @@
     (SlotD :> d) @@ (SlotEY :> Reg(1)) @@ (SlotFY :> fy) @@ (SlotGX :> AtLimit) :
        ay \in {Reg(n) : n \in 1..MaxLines} \cup {Symlink},
        bx \in {Reg(MaxLines), Big, StatFail},
        cx \in {Reg(1), OpenFail},
        d \in {NulLate, Nul},
        fy \in {Reg(0), ReadFail}}

\* the trees two calls are compared on
PairTrees ==
    {(SlotAY :> ay) @@ (SlotBX :> Absent) @@ (SlotDotF :> df) @@ (SlotCX :> Reg(1)) @@
     (SlotD :> Reg(1)) @@ (SlotEY :> Reg(1)) @@ (SlotFY :> fy) @@ (SlotGX :> gx) :
        ay \in {Reg(MaxLines), Symlink},
        df \in {Reg(1), Fifo},
        fy \in {Reg(MaxLines), Big},
        gx \in {Reg(1), ReadFail}}

\* Path.exists(), Path.is_dir() of main's scan_root
Exists(t, p) == p \in WorldDirs \/ (p \in FileSlots /\ t[p].type # "absent")
IsDir(p) == p \in WorldDirs

\* os.walk's listing of directory p: the sub-directories and the other entries
ListDirs(p) == {Last(d) : d \in {x \in WorldDirs : x # <<>> /\ Parent(x) = p}}
ListFiles(t, p) ==
    {Last(f) : f \in {x \in FileSlots : Parent(x) = p /\ t[x].type # "absent"}}

\* Path.is_file() follows symlinks; Path.is_symlink() does not
IsFile(attr) == attr.type \in {"reg", "symlink"}
IsSymlink(attr) == attr.type = "symlink"

-----------------------------------------------------------------------------
(* The pure functions of the tool *)

\* parse_runtime_input: a blank input is {}, anything but a JSON object raises
RawInputs == {"blank", "object", "array", "garbage"}
ParseRaises(r) == r \in {"array", "garbage"}

\* The values a payload may hold for an integer option: none (absent or null),
\* an integer, something int() refuses with TypeError/ValueError, and a float
\* infinity (JSON 1e999), for which int() raises OverflowError.
ArgValues ==
    {[t |-> "none", v |-> 0], [t |-> "bad", v |-> 0], [t |-> "inf", v |-> 0]} \cup
    {[t |-> "int", v |-> n] : n \in 0..MaxArg}

\* to_int: only TypeError and ValueError are caught
ToIntRaises(value) == value.t = "inf"
to_int(value, default, minimum, maximum) ==
    IF value.t = "none" THEN default
    ELSE IF value.t = "bad" THEN default
    ELSE IF value.v < minimum THEN minimum
    ELSE IF value.v > maximum THEN maximum
    ELSE value.v

\* The values a payload may hold for include_hidden: none, a boolean, a string
\* (" Yes", "no", "on") or another type (a number).
BoolValues ==
    {[t |-> "none", b |-> FALSE, s |-> <<>>], [t |-> "other", b |-> FALSE, s |-> <<>>],
     [t |-> "bool", b |-> TRUE, s |-> <<>>], [t |-> "bool", b |-> FALSE, s |-> <<>>],
     [t |-> "str", b |-> FALSE, s |-> <<32, 89, 101, 115>>],
     [t |-> "str", b |-> FALSE, s |-> <<110, 111>>],
     [t |-> "str", b |-> FALSE, s |-> <<111, 110>>]}

\* "1", "true", "yes", "y" and "0", "false", "no", "n"
TruthyWords == {<<49>>, <<116, 114, 117, 101>>, <<121, 101, 115>>, <<121>>}
FalsyWords == {<<48>>, <<102, 97, 108, 115, 101>>, <<110, 111>>, <<110>>}

to_bool(value, default) ==
    IF value.t = "none" THEN default
    ELSE IF value.t = "bool" THEN value.b
    ELSE IF value.t = "str"
         THEN LET lowered == Lower(Strip(value.s))
              IN IF lowered \in TruthyWords THEN TRUE
                 ELSE IF lowered \in FalsyWords THEN FALSE
                 ELSE default
    ELSE default

normalize_ext(name) ==
    LET suffix == LStripDots(Lower(Suffix(name)))
    IN IF suffix # <<>> THEN suffix ELSE NoExt

\* line_count: no handler around open/read, an OSError leaves the function
LineCountRaises(attr) == ~attr.read_ok
line_count(attr) == attr.lines

\* mutant of is_binary_or_too_large: size >= MAX_TEXT_FILE_BYTES
is_binary_or_too_large_inclusive(attr) ==
    IF ~attr.stat_ok THEN TRUE
    ELSE IF attr.size >= MAX_TEXT_FILE_BYTES THEN TRUE
    ELSE IF ~attr.open_ok THEN TRUE
    ELSE attr.nul_at >= 0 /\ attr.nul_at < SAMPLE_BYTES

is_binary_or_too_large(attr) ==
    IF ~attr.stat_ok THEN TRUE
    ELSE IF attr.size > MAX_TEXT_FILE_BYTES THEN TRUE
    ELSE IF ~attr.open_ok THEN TRUE
    ELSE attr.nul_at >= 0 /\ attr.nul_at < SAMPLE_BYTES

\* mutant of should_skip_name: name.endswith(".")
should_skip_name_endswith(name, hidden) ==
    IF hidden THEN FALSE
    ELSE Len(name) >= 1 /\ SubSeq(name, Len(name), Len(name)) = Dot

should_skip_name(name, hidden) ==
    IF hidden THEN FALSE
    ELSE Len(name) >= 1 /\ SubSeq(name, 1, 1) = Dot

\* mutant of within_depth: one level too deep
within_depth_plus_one(root, path, depth) == Len(RelativeTo(path, root)) <= depth + 1

within_depth(root, path, depth) == Len(RelativeTo(path, root)) <= depth

\* mutant of CapExceeded: scanned_files >= max_files
CapExceededAtCap(n, cap) == n >= cap

\* scanned_files > max_files, the cap's test
CapExceeded(n, cap) == n > cap

\* mutant of CapResultCount: the local counter is returned
CapResultCountLocal(n, cap) == n

\* "scanned_files": max_files in the truncated result
CapResultCount(n, cap) == cap

\* mutant of UpdateBucket: bucket["lines"] = lines
UpdateBucketOverwrite(es, ext, lines) ==
    IF \E i \in 1..Len(es) : es[i].ext = ext
    THEN [i \in 1..Len(es) |->
            IF es[i].ext = ext
            THEN [ext |-> ext, files |-> es[i].files + 1, lines |-> lines]
            ELSE es[i]]
    ELSE Append(es, [ext |-> ext, files |-> 1, lines |-> lines])

\* bucket = ext_stats.setdefault(ext, {...}); bucket["files"] += 1; bucket["lines"] += lines
\* (a dict keeps its keys in insertion order)
HasBucket(es, ext) == \E i \in 1..Len(es) : es[i].ext = ext
UpdateBucket(es, ext, lines) ==
    IF HasBucket(es, ext)
    THEN [i \in 1..Len(es) |->
            IF es[i].ext = ext
            THEN [ext |-> ext, files |-> es[i].files + 1, lines |-> es[i].lines + lines]
            ELSE es[i]]
    ELSE Append(es, [ext |-> ext, files |-> 1, lines |-> lines])

\* mutant of KeyLess: the key is (-files, -lines)
KeyLessNoExt(x, y) ==
    IF x.files # y.files THEN x.files > y.files
    ELSE x.lines > y.lines

\* the sort key (-files, -lines, ext), compared as Python compares tuples
KeyLess(x, y) ==
    IF x.files # y.files THEN x.files > y.files
    ELSE IF x.lines # y.lines THEN x.lines > y.lines
    ELSE StrLess(x.ext, y.ext)

\* list.sort(key=...): stable
RECURSIVE InsertGroup(_, _)
InsertGroup(x, s) ==
    IF s = <<>> THEN <<x>>
    ELSE IF KeyLess(x, Head(s)) THEN <<x>> \o s
    ELSE <<Head(s)>> \o InsertGroup(x, Tail(s))
RECURSIVE SortGroups(_)
SortGroups(s) ==
    IF s = <<>> THEN <<>> ELSE InsertGroup(s[Len(s)], SortGroups(SubSeq(s, 1, Len(s) - 1)))

\* groups[:top_extensions]
Take(s, n) == SubSeq(s, 1, IF n < Len(s) THEN n ELSE Len(s))

\* build_output; generated_at, the wall clock, is left out
build_output(root, st, top) ==
    [status |-> "ok", tool |-> "codebase_stats", root |-> root,
     scanned_files |-> st.scanned_files, scanned_dirs |-> st.scanned_dirs,
     skipped_files |-> st.skipped_files, total_lines |-> st.total_lines,
     top_extensions |-> Take(SortGroups(st.ext_stats), top),
     truncated |-> st.truncated]

-----------------------------------------------------------------------------
(* The state machine *)

NoStats ==
    [ext_stats |-> <<>>, scanned_files |-> 0, scanned_dirs |-> 0, skipped_files |-> 0,
     total_lines |-> 0, truncated |-> FALSE]

NoFirst == [set |-> FALSE, stats |-> NoStats, include_hidden |-> FALSE]

\* the "root" values of the payload, as path segments:
\* "", "a", "nope", "a.y", "..", "../tmp"
RootValues == {<<>>, <<DirA>>, <<NameNope>>, <<FileAY>>, <<DotDot>>, <<DotDot, DirTmp>>}

ErrorRecord(msg) == [status |-> "error", error |-> msg]

InitWith(trees) ==
    /\ tree \in trees
    /\ raw \in RawInputs
    /\ scan_root = <<>>
    /\ pc = "parse"
    /\ max_depth = 0 /\ top_extensions = 0 /\ max_files = 0 /\ include_hidden = FALSE
    /\ stack = <<>> /\ root_path = <<>> /\ pending = <<>>
    /\ ext_stats = <<>>
    /\ scanned_files = 0 /\ scanned_dirs = 0 /\ skipped_files = 0
    /\ truncated = FALSE /\ total_lines = 0
    /\ stats = NoStats
    /\ out = <<>>
    /\ exit_code = -1
    /\ visited = {}
    /\ first = NoFirst

Init == InitWith(Trees)

PairInit == InitWith(PairTrees)

walkVars == <<stack, root_path, pending, ext_stats, scanned_files, scanned_dirs,
              skipped_files, truncated, total_lines, stats, visited>>
optVars == <<max_depth, top_extensions, max_files, include_hidden>>

\* main: parse_runtime_input raised
ParseError ==
    /\ pc = "parse"
    /\ ParseRaises(raw)
    /\ out' = Append(out, ErrorRecord("invalid input"))
    /\ exit_code' = 1
    /\ pc' = "exit"
    /\ UNCHANGED <<tree, raw, scan_root, optVars, walkVars, first>>

\* main: the scan root is resolved; it does not exist or is no directory
RootNotFound ==
    /\ pc = "parse"
    /\ ~ParseRaises(raw)
    /\ \E rv \in (IF raw = "blank" THEN {<<>>} ELSE RootValues) :
          LET r == Resolve(BaseRoot, rv)
          IN /\ ~Exists(tree, r) \/ ~IsDir(r)
             /\ scan_root' = r
    /\ out' = Append(out, ErrorRecord("root not found"))
    /\ exit_code' = 1
    /\ pc' = "exit"
    /\ UNCHANGED <<tree, raw, optVars, walkVars, first>>

\* main: the scan root is resolved; it is a directory
RootFound ==
    /\ pc = "parse"
    /\ ~ParseRaises(raw)
    /\ \E rv \in (IF raw = "blank" THEN {<<>>} ELSE RootValues) :
          LET r == Resolve(BaseRoot, rv)
          IN /\ Exists(tree, r) /\ IsDir(r)
             /\ scan_root' = r
    /\ pc' = "boundary"
    /\ UNCHANGED <<tree, raw, optVars, walkVars, out, exit_code, first>>

\* main: scan_root.relative_to(base_root) raised ValueError
RootOutside ==
    /\ pc = "boundary"
    /\ RelativeToRaises(scan_root, BaseRoot)
    /\ out' = Append(out, ErrorRecord("root must stay within workspace"))
    /\ exit_code' = 1
    /\ pc' = "exit"
    /\ UNCHANGED <<tree, raw, scan_root, optVars, walkVars, first>>

\* main: the options are read, none of the to_int calls raises, and
\* collect_stats is entered: its locals are set and os.walk starts at scan_root
ReadOptions ==
    /\ pc = "boundary"
    /\ ~RelativeToRaises(scan_root, BaseRoot)
    /\ \E d \in (IF raw = "blank" THEN {[t |-> "none", v |-> 0]} ELSE ArgValues),
          e \in (IF raw = "blank" THEN {[t |-> "none", v |-> 0]} ELSE ArgValues),
          f \in (IF raw = "blank" THEN {[t |-> "none", v |-> 0]} ELSE ArgValues),
          h \in (IF raw = "blank" THEN {[t |-> "none", b |-> FALSE, s |-> <<>>]}
                 ELSE BoolValues) :
          /\ ~ToIntRaises(d) /\ ~ToIntRaises(e) /\ ~ToIntRaises(f)
          /\ max_depth' = to_int(d, DEFAULT_MAX_DEPTH, 1, 32)
          /\ top_extensions' = to_int(e, DEFAULT_TOP_EXTENSIONS, 1, 50)
          /\ max_files' = to_int(f, DEFAULT_MAX_FILES, 1, 20000)
          /\ include_hidden' = to_bool(h, FALSE)
    /\ ext_stats' = <<>>
    /\ scanned_files' = 0 /\ scanned_dirs' = 0 /\ skipped_files' = 0
    /\ truncated' = FALSE /\ total_lines' = 0
    /\ stack' = <<scan_root>>
    /\ pc' = "walk"
    /\ UNCHANGED <<tree, raw, scan_root, root_path, pending, stats, out, exit_code,
                   visited, first>>

\* main: a to_int call raised OverflowError, which nothing catches
OptionsRaise ==
    /\ pc = "boundary"
    /\ ~RelativeToRaises(scan_root, BaseRoot)
    /\ raw # "blank"
    /\ \E d \in ArgValues : ToIntRaises(d)
    /\ exit_code' = 1
    /\ pc' = "raised"
    /\ UNCHANGED <<tree, raw, scan_root, optVars, walkVars, out, first>>

\* collect_stats: os.walk yields a directory beyond max_depth; dirs[:] = []
WalkPrune ==
    /\ pc = "walk" /\ pending = <<>> /\ stack # <<>>
    /\ ~within_depth(scan_root, Head(stack), max_depth)
    /\ stack' = Tail(stack)
    /\ UNCHANGED <<tree, raw, scan_root, pc, optVars, root_path, pending, ext_stats,
                   scanned_files, scanned_dirs, skipped_files, truncated, total_lines,
                   stats, out, exit_code, visited, first>>

\* collect_stats: os.walk yields a directory within max_depth, its entries in
\* whatever order the listing has; names are filtered, the files sorted, and
\* os.walk will descend into the directories that are left, in their order
WalkEnter ==
    /\ pc = "walk" /\ pending = <<>> /\ stack # <<>>
    /\ within_depth(scan_root, Head(stack), max_depth)
    /\ \E dirs \in Orderings(ListDirs(Head(stack))),
          files \in Orderings(ListFiles(tree, Head(stack))) :
          LET keptDirs == SelectSeq(dirs, LAMBDA d : ~should_skip_name(d, include_hidden))
              keptFiles == SelectSeq(files, LAMBDA f : ~should_skip_name(f, include_hidden))
          IN /\ stack' = [i \in 1..Len(keptDirs) |-> Append(Head(stack), keptDirs[i])]
                            \o Tail(stack)
             /\ pending' = Sorted(keptFiles)
    /\ root_path' = Head(stack)
    /\ scanned_dirs' = scanned_dirs + 1
    /\ UNCHANGED <<tree, raw, scan_root, pc, optVars, ext_stats, scanned_files,
                   skipped_files, truncated, total_lines, stats, out, exit_code,
                   visited, first>>

\* the file the loop body is about to take up
FilePath == Append(root_path, Head(pending))
FileAttr == tree[FilePath]
Took(outcome) == visited \cup {[path |-> FilePath, outcome |-> outcome]}

\* collect_stats: not a regular file, or a symlink
FileSkipNotRegular ==
    /\ pc = "walk" /\ pending # <<>>
    /\ ~IsFile(FileAttr) \/ IsSymlink(FileAttr)
    /\ skipped_files' = skipped_files + 1
    /\ pending' = Tail(pending)
    /\ visited' = Took("skipped")
    /\ UNCHANGED <<tree, raw, scan_root, pc, optVars, stack, root_path, ext_stats,
                   scanned_files, scanned_dirs, truncated, total_lines, stats, out,
                   exit_code, first>>

\* collect_stats: is_binary_or_too_large
FileSkipBinary ==
    /\ pc = "walk" /\ pending # <<>>
    /\ ~(~IsFile(FileAttr) \/ IsSymlink(FileAttr))
    /\ is_binary_or_too_large(FileAttr)
    /\ skipped_files' = skipped_files + 1
    /\ pending' = Tail(pending)
    /\ visited' = Took("skipped")
    /\ UNCHANGED <<tree, raw, scan_root, pc, optVars, stack, root_path, ext_stats,
                   scanned_files, scanned_dirs, truncated, total_lines, stats, out,
                   exit_code, first>>

Accepted ==
    /\ pc = "walk" /\ pending # <<>>
    /\ ~(~IsFile(FileAttr) \/ IsSymlink(FileAttr))
    /\ ~is_binary_or_too_large(FileAttr)

\* collect_stats: the cap trips; the truncated result is returned
FileCapReached ==
    /\ Accepted
    /\ CapExceeded(scanned_files + 1, max_files)
    /\ scanned_files' = scanned_files + 1
    /\ truncated' = TRUE
    /\ stats' = [ext_stats |-> ext_stats,
                 scanned_files |-> CapResultCount(scanned_files + 1, max_files),
                 scanned_dirs |-> scanned_dirs, skipped_files |-> skipped_files,
                 total_lines |-> total_lines, truncated |-> TRUE]
    /\ visited' = Took("cap")
    /\ pc' = "report"
    /\ UNCHANGED <<tree, raw, scan_root, optVars, stack, root_path, pending, ext_stats,
                   scanned_dirs, skipped_files, total_lines, out, exit_code, first>>

\* collect_stats: the file is counted
FileCount ==
    /\ Accepted
    /\ ~CapExceeded(scanned_files + 1, max_files)
    /\ ~LineCountRaises(FileAttr)
    /\ scanned_files' = scanned_files + 1
    /\ total_lines' = total_lines + line_count(FileAttr)
    /\ ext_stats' = UpdateBucket(ext_stats, normalize_ext(Head(pending)), line_count(FileAttr))
    /\ pending' = Tail(pending)
    /\ visited' = Took("counted")
    /\ UNCHANGED <<tree, raw, scan_root, pc, optVars, stack, root_path, scanned_dirs,
                   skipped_files, truncated, stats, out, exit_code, first>>

\* collect_stats: line_count raises OSError; nothing catches it, main ends
\* with a traceback and exit status 1
FileReadRaise ==
    /\ Accepted
    /\ ~CapExceeded(scanned_files + 1, max_files)
    /\ LineCountRaises(FileAttr)
    /\ scanned_files' = scanned_files + 1
    /\ visited' = Took("raised")
    /\ exit_code' = 1
    /\ pc' = "raised"
    /\ UNCHANGED <<tree, raw, scan_root, optVars, stack, root_path, pending, ext_stats,
                   scanned_dirs, skipped_files, truncated, total_lines, stats, out, first>>

\* collect_stats: os.walk is exhausted; the result is returned
WalkDone ==
    /\ pc = "walk" /\ pending = <<>> /\ stack = <<>>
    /\ stats' = [ext_stats |-> ext_stats, scanned_files |-> scanned_files,
                 scanned_dirs |-> scanned_dirs, skipped_files |-> skipped_files,
                 total_lines |-> total_lines, truncated |-> truncated]
    /\ pc' = "report"
    /\ UNCHANGED <<tree, raw, scan_root, optVars, stack, root_path, pending, ext_stats,
                   scanned_files, scanned_dirs, skipped_files, truncated, total_lines,
                   out, exit_code, visited, first>>

\* main: build_output, print, return 0
Report ==
    /\ pc = "report"
    /\ out' = Append(out, build_output(scan_root, stats, top_extensions))
    /\ exit_code' = 0
    /\ pc' = "exit"
    /\ UNCHANGED <<tree, raw, scan_root, optVars, walkVars, first>>

\* A second call of collect_stats on the same tree, with the same scan_root,
\* max_depth and max_files and either value of include_hidden, after the first
\* one's result was reported.
Rerun ==
    /\ pc = "exit" /\ exit_code = 0 /\ ~first.set
    /\ first' = [set |-> TRUE, stats |-> stats, include_hidden |-> include_hidden]
    /\ include_hidden' \in BOOLEAN
    /\ ext_stats' = <<>>
    /\ scanned_files' = 0 /\ scanned_dirs' = 0 /\ skipped_files' = 0
    /\ truncated' = FALSE /\ total_lines' = 0
    /\ stack' = <<scan_root>> /\ root_path' = <<>> /\ pending' = <<>>
    /\ stats' = NoStats
    /\ visited' = {}
    /\ out' = <<>>
    /\ exit_code' = -1
    /\ pc' = "walk"
    /\ UNCHANGED <<tree, raw, scan_root, max_depth, top_extensions, max_files>>

Next ==
    \/ ParseError \/ RootNotFound \/ RootFound \/ RootOutside
    \/ ReadOptions \/ OptionsRaise
    \/ WalkPrune \/ WalkEnter
    \/ FileSkipNotRegular \/ FileSkipBinary \/ FileCapReached \/ FileCount
    \/ FileReadRaise \/ WalkDone \/ Report

Spec == Init /\ [][Next]_vars

PairNext == Next \/ Rerun

PairSpec == PairInit /\ [][PairNext]_vars

-----------------------------------------------------------------------------
(* What the properties speak of *)

\* collect_stats has returned: stats is its result
Returned == pc = "report" \/ (pc = "exit" /\ exit_code = 0)
\* main has printed the success record
Succeeded == pc = "exit" /\ exit_code = 0

RECURSIVE SumFiles(_)
SumFiles(es) == IF es = <<>> THEN 0 ELSE Head(es).files + SumFiles(Tail(es))
RECURSIVE SumLines(_)
SumLines(es) == IF es = <<>> THEN 0 ELSE Head(es).lines + SumLines(Tail(es))

\* the lines of a set of files of the tree
RECURSIVE LinesOf(_)
LinesOf(S) ==
    IF S = {} THEN 0
    ELSE LET f == CHOOSE x \in S : TRUE IN tree[f].lines + LinesOf(S \ {f})

VisitedAs(outcome) == {v.path : v \in {w \in visited : w.outcome = outcome}}
VisitedPaths == {v.path : v \in visited}

\* the segments of p below the scan root, and whether one of them is hidden
BelowRoot(p) == Len(p) >= Len(scan_root) /\ SubSeq(p, 1, Len(scan_root)) = scan_root
SegmentsBelowRoot(p) == Len(p) - Len(scan_root)
HasHiddenSegment(p) == \E i \in (Len(scan_root) + 1)..Len(p) : p[i][1] = 46

\* the files that exist in directories at depth <= max_depth below the root
\* and that the hidden-name filter lets through
PresentFiles == {f \in FileSlots : tree[f].type # "absent"}
InScope ==
    {f \in PresentFiles :
        /\ BelowRoot(f)
        /\ SegmentsBelowRoot(f) - 1 <= max_depth
        /\ include_hidden \/ ~HasHiddenSegment(f)}

\* the four reasons the claims name for skipping a visited file
NotRegular(f) == tree[f].type \notin {"reg", "symlink"}
IsLink(f) == tree[f].type = "symlink"
Oversized(f) == tree[f].size > 2097152
NulInSample(f) == tree[f].nul_at >= 0 /\ tree[f].nul_at <= 2047
\* and the one they leave out: the binary/size check could not stat or open it
CheckFailed(f) == ~tree[f].stat_ok \/ ~tree[f].open_ok

Eligible ==
    {f \in InScope :
        ~NotRegular(f) /\ ~IsLink(f) /\ ~Oversized(f) /\ ~NulInSample(f) /\ ~CheckFailed(f)}

-----------------------------------------------------------------------------
(* C1 *)

C1_Inv ==
    /\ Returned => stats.scanned_files <= max_files
    /\ Returned /\ stats.truncated =>
          /\ stats.scanned_files = max_files
          /\ SumFiles(stats.ext_stats) = max_files
          /\ Cardinality(VisitedAs("counted")) = max_files
          /\ Cardinality(VisitedAs("cap")) = 1
          /\ VisitedAs("cap") \cap VisitedAs("counted") = {}
          /\ stats.total_lines = LinesOf(VisitedAs("counted"))
          /\ stats.total_lines = SumLines(stats.ext_stats)

C1_Stops ==
    truncated => UNCHANGED <<visited, ext_stats, scanned_dirs, skipped_files,
                             total_lines, stats, stack, pending>>

\* C1: the returned scanned_files never exceeds max_files; when the cap trips
\* the triggering file is in no bucket and not in total_lines, exactly
\* max_files files are counted (scanned_files = max_files = the sum of the
\* buckets' files), and no file or directory is processed afterwards.
C1_CapExclusive == [](C1_Inv) /\ [][C1_Stops]_vars

C1_Witness ==
    /\ Returned /\ stats.truncated /\ max_files = 2
    /\ stats.skipped_files > 0 /\ stats.total_lines > 2

-----------------------------------------------------------------------------
(* C2 *)

C2_Inv == Returned => (stats.truncated <=> Cardinality(Eligible) > max_files)

-----------------------------------------------------------------------------
(* C3 *)

\* C3: total_lines is the sum of the buckets' lines after every file and in
\* the returned result, and build_output reports the full scan's total_lines
\* and scanned_files however many groups top_extensions drops.
C3_TotalLines ==
    /\ total_lines = SumLines(ext_stats)
    /\ total_lines = LinesOf(VisitedAs("counted"))
    /\ Returned => stats.total_lines = SumLines(stats.ext_stats)
    /\ Succeeded =>
          /\ out[1].total_lines = SumLines(stats.ext_stats)
          /\ out[1].total_lines = LinesOf(VisitedAs("counted"))
          /\ out[1].scanned_files = stats.scanned_files
          /\ out[1].scanned_files = SumFiles(stats.ext_stats)

C3_Witness ==
    /\ Succeeded
    /\ Len(out[1].top_extensions) < Len(stats.ext_stats)
    /\ out[1].total_lines > SumLines(out[1].top_extensions)
    /\ \E i \in 1..Len(stats.ext_stats) : stats.ext_stats[i].files > 1

-----------------------------------------------------------------------------
(* C4 *)

\* C4 as stated: with depth counted in path segments below the root, no file
\* at depth max_depth + 1 is ever taken up by the scan.
C4_FileDepthOriginal ==
    \A f \in VisitedPaths : SegmentsBelowRoot(f) # max_depth + 1

\* C4 as amended: depth is the directory's.  No file in a directory at depth
\* greater than max_depth (a path of more than max_depth + 1 segments) appears
\* in any count, and a scan that is not cut short takes up every file in a
\* directory at depth <= max_depth that the hidden-name filter lets through.
C4_DirectoryDepth ==
    /\ \A f \in VisitedPaths : BelowRoot(f) /\ SegmentsBelowRoot(f) - 1 <= max_depth
    /\ Returned /\ ~stats.truncated => VisitedPaths = InScope
    /\ Returned =>
          stats.scanned_files + stats.skipped_files <=
             Cardinality({f \in PresentFiles :
                             BelowRoot(f) /\ SegmentsBelowRoot(f) - 1 <= max_depth})

C4_Witness ==
    /\ Returned /\ ~stats.truncated /\ include_hidden
    /\ scan_root = BaseRoot /\ max_depth = 1
    /\ SlotCX \in VisitedPaths
    /\ tree[SlotD].type = "reg" /\ SlotD \notin VisitedPaths

-----------------------------------------------------------------------------
(* C5 *)

\* C5: the scan never raises for one file's I/O trouble: a file whose stat,
\* open or read fails is demoted to skipped and the scan goes on.
C5_NeverRaises ==
    /\ \A v \in visited : v.outcome # "raised"
    /\ \A v \in visited :
          (~tree[v.path].stat_ok \/ ~tree[v.path].open_ok \/ ~tree[v.path].read_ok)
             => v.outcome \in {"skipped", "cap"}

-----------------------------------------------------------------------------
(* C6 *)

Buckets(st) == {st.ext_stats[i] : i \in 1..Len(st.ext_stats)}

\* C6: two calls on the same tree with the same options return the same
\* buckets and counters, whatever order the directory listings have.
C6_Deterministic ==
    first.set /\ Returned /\ first.include_hidden = include_hidden =>
        /\ Buckets(first.stats) = Buckets(stats)
        /\ first.stats.scanned_files = stats.scanned_files
        /\ first.stats.skipped_files = stats.skipped_files
        /\ first.stats.total_lines = stats.total_lines
        /\ first.stats.truncated = stats.truncated

-----------------------------------------------------------------------------
(* C7 *)

\* the directories the filters let the walk enter
DirsInScope ==
    {d \in WorldDirs :
        /\ BelowRoot(d)
        /\ SegmentsBelowRoot(d) <= max_depth
        /\ include_hidden \/ ~HasHiddenSegment(d)}

\* C7: without include_hidden no file that is hidden or below a hidden
\* directory is in any count and a hidden directory adds nothing to
\* scanned_dirs; with include_hidden they are visited like the others; and a
\* call with include_hidden returns at least the scanned_files of the call
\* without it on the same tree.
C7_Hidden ==
    /\ ~include_hidden => \A f \in VisitedPaths : ~HasHiddenSegment(f)
    /\ pc = "walk" => scanned_dirs <= Cardinality(DirsInScope)
    /\ Returned /\ ~stats.truncated =>
          /\ stats.scanned_dirs = Cardinality(DirsInScope)
          /\ VisitedPaths = InScope
    /\ first.set /\ ~first.include_hidden /\ include_hidden /\ Returned =>
          first.stats.scanned_files <= stats.scanned_files

C7_Witness ==
    /\ first.set /\ ~first.include_hidden /\ include_hidden /\ Returned
    /\ first.stats.scanned_files < stats.scanned_files
    /\ first.stats.scanned_dirs < stats.scanned_dirs
    /\ \E f \in VisitedAs("counted") : HasHiddenSegment(f)

-----------------------------------------------------------------------------
(* C8 *)

Settled == VisitedAs("skipped") \cup VisitedAs("counted")

C8_Common ==
    /\ skipped_files = Cardinality(VisitedAs("skipped"))
    /\ SumFiles(ext_stats) = Cardinality(VisitedAs("counted"))
    /\ total_lines = LinesOf(VisitedAs("counted"))
    /\ VisitedAs("skipped") \cap VisitedAs("counted") = {}
    /\ Cardinality(visited) = Cardinality(VisitedPaths)
    /\ Returned => stats.skipped_files = Cardinality(VisitedAs("skipped"))
    /\ Returned => stats.scanned_files = Cardinality(VisitedAs("counted"))
    /\ VisitedPaths \subseteq InScope

\* C8 as stated: a visited file is skipped exactly when it is not a regular
\* file, is a symlink, exceeds 2 MiB or has a NUL byte in its first 2048 bytes.
C8_SkipReasonsOriginal ==
    /\ C8_Common
    /\ \A f \in Settled :
          f \in VisitedAs("skipped") <=>
             (NotRegular(f) \/ IsLink(f) \/ Oversized(f) \/ NulInSample(f))

\* C8 as amended: every file taken up before the scan stops is accounted once,
\* as skipped or as counted; it is skipped exactly when it is not a regular
\* file, is a symlink, exceeds 2 MiB, has a NUL byte in its first 2048 bytes,
\* or cannot be stat'ed or opened by the binary/size check; a skipped file is
\* in no bucket, and a file the depth or hidden filter excludes is never
\* skipped.
C8_SkipAccounting ==
    /\ C8_Common
    /\ \A f \in Settled :
          f \in VisitedAs("skipped") <=>
             (NotRegular(f) \/ IsLink(f) \/ Oversized(f) \/ NulInSample(f)
                \/ CheckFailed(f))

C8_Witness ==
    /\ Returned /\ ~stats.truncated
    /\ \E f \in VisitedAs("skipped") : IsLink(f)
    /\ \E f \in VisitedAs("skipped") : CheckFailed(f)
    /\ \E f \in VisitedAs("skipped") : NulInSample(f)
    /\ \E f \in VisitedAs("counted") : tree[f].size = 2097152
    /\ \E f \in PresentFiles : f \notin VisitedPaths

-----------------------------------------------------------------------------
(* C9 *)

\* the ranking the claim states: more files first, then more lines, then the
\* alphabetically earlier extension
RankedBefore(x, y) ==
    \/ x.files > y.files
    \/ x.files = y.files /\ x.lines > y.lines
    \/ x.files = y.files /\ x.lines = y.lines /\ StrLess(x.ext, y.ext)

\* C9: the reported groups are the first min(top_extensions, number of
\* buckets) buckets in the order files descending, lines descending,
\* extension ascending, whatever order the buckets were created in.
C9_Ranking ==
    Succeeded =>
        LET g == out[1].top_extensions
            b == stats.ext_stats
        IN /\ Len(g) = (IF top_extensions < Len(b) THEN top_extensions ELSE Len(b))
           /\ \A i \in 1..Len(g) : \E j \in 1..Len(b) : g[i] = b[j]
           /\ \A i, j \in 1..Len(g) : i < j => RankedBefore(g[i], g[j])
           /\ \A j \in 1..Len(b) :
                 (\A i \in 1..Len(g) : g[i] # b[j]) =>
                    \A i \in 1..Len(g) : RankedBefore(g[i], b[j])

C9_Witness ==
    /\ Succeeded
    /\ Len(stats.ext_stats) >= 2 /\ Len(out[1].top_extensions) >= 2
    /\ stats.ext_stats[1].files = stats.ext_stats[2].files
    /\ stats.ext_stats[1].lines = stats.ext_stats[2].lines
    /\ StrLess(stats.ext_stats[2].ext, stats.ext_stats[1].ext)
    /\ out[1].top_extensions[1] = stats.ext_stats[2]

-----------------------------------------------------------------------------
(* C10 *)

\* the three checks of main, stated on the input
PayloadMalformed == raw \in {"array", "garbage"}
RootResolved == pc # "parse" /\ ~PayloadMalformed
RootMissing == RootResolved /\ scan_root \notin WorldDirs
RootEscapes ==
    RootResolved /\ ~(Len(scan_root) >= 1 /\ scan_root[1] = <<119, 115>>)
InvalidInput == PayloadMalformed \/ RootMissing \/ RootEscapes

\* C10: on a malformed payload, a root that is missing or no directory, or a
\* root outside the base directory, main ends before any traversal with
\* exactly one error record and a non-zero status and no success record; a
\* success record comes only with status 0 and after all three checks passed.
C10_ErrorContract ==
    /\ InvalidInput =>
          /\ pc \in {"parse", "boundary", "exit"}
          /\ scanned_dirs = 0 /\ visited = {} /\ stats = NoStats
          /\ \A i \in 1..Len(out) : out[i].status = "error"
    /\ InvalidInput /\ pc = "exit" =>
          Len(out) = 1 /\ out[1].status = "error" /\ exit_code # 0
    /\ Len(out) <= 1
    /\ \A i \in 1..Len(out) :
          out[i].status = "ok" => exit_code = 0 /\ pc = "exit" /\ ~InvalidInput
    /\ exit_code = 0 => Len(out) = 1 /\ out[1].status = "ok"

C10_Witness ==
    /\ pc = "exit" /\ exit_code = 1
    /\ scan_root \in WorldDirs /\ RootEscapes
    /\ Len(out) = 1 /\ out[1].status = "error"

====
